---- MODULE Spec2Model ----
(***************************************************************************)
(* Model of apps/backend/agent/tools.py of bk-nodeman: the planner that    *)
(* resolves, for a host, the upstream servers, the jump host, the          *)
(* installer script and the install commands (gen_commands), and its batch *)
(* driver (batch_gen_commands).                                            *)
(*                                                                         *)
(* A Python str is modelled as a sequence of atoms.  An atom is a single   *)
(* character wherever the code looks inside a string (addresses, callback  *)
(* URLs, the leading flag of a run parameter) and an indivisible literal   *)
(* fragment of an f-string template elsewhere.  Joining is concatenation   *)
(* of sequences, set(str) is the set of one-atom strings.                  *)
(***************************************************************************)
EXTENDS Naturals, Integers, Sequences, FiniteSets, TLC

VARIABLES
    settings,       \* django settings used by the planner (callback URLs)
    hashseed,       \* the process's str hash seed: fixes the iteration order of set()
    db,             \* record store: host.proxies, host.ap.outer_callback_url
    pc,             \* position of the caller: "idle", "called", "recalled", "batch", "returned", "raised"
    args,           \* <<arguments>> of the gen_commands call under way
    res1,           \* <<outcome>> of the first gen_commands call, <<>> before it
    res2,           \* <<outcome>> of the second call with identical arguments
    hosts,          \* batch_gen_commands: the hosts argument
    idx,            \* batch_gen_commands: index of the next host of the loop
    host_id__installation_tool_map, \* batch_gen_commands: bk_host_id -> plan
    install_channel_id_obj_map,     \* batch_gen_commands: channel cache
    cloud_id_proxies_map,           \* batch_gen_commands: proxies cache
    attempted,      \* bk_host_ids gen_commands was called for in the batch
    lookups,        \* install_channel_id -> evaluations of host.install_channel in the batch
    batch_uninstall \* batch_gen_commands: the is_uninstall argument

vars == <<settings, hashseed, db, pc, args, res1, res2, hosts, idx,
          host_id__installation_tool_map, install_channel_id_obj_map,
          cloud_id_proxies_map, attempted, lookups, batch_uninstall>>

(***************************************************************************)
(* Bounds of the model.                                                    *)
(***************************************************************************)
MaxHosts == 2

(***************************************************************************)
(* Strings.                                                                *)
(***************************************************************************)
RECURSIVE Join(_, _)
\* sep.join(parts)
Join(sep, parts) ==
    IF parts = <<>> THEN <<>>
    ELSE IF Len(parts) = 1 THEN parts[1]
    ELSE parts[1] \o sep \o Join(sep, Tail(parts))

Range(s) == {s[i] : i \in DOMAIN s}

StartsWith(s, p) == Len(s) >= Len(p) /\ SubSeq(s, 1, Len(p)) = p

EndsWith(s, p) == Len(s) >= Len(p) /\ SubSeq(s, Len(s) - Len(p) + 1, Len(s)) = p

Reverse(s) == [i \in 1..Len(s) |-> s[Len(s) + 1 - i]]

RECURSIVE SeqOfSet(_)
SeqOfSet(S) ==
    IF S = {} THEN <<>>
    ELSE LET x == CHOOSE y \in S : TRUE IN <<x>> \o SeqOfSet(S \ {x})

\* list(set(xs)): the distinct elements of xs, in the iteration order the
\* process's hash seed gives them (the same for every call in one process).
list_set(xs, seed) ==
    IF seed = 0 THEN SeqOfSet(Range(xs)) ELSE Reverse(SeqOfSet(Range(xs)))

\* iterating a str yields its one-character strings
chars_of(s) == [i \in 1..Len(s) |-> <<s[i]>>]

(***************************************************************************)
(* Constants of apps.node_man.constants / apps.backend.api.constants and   *)
(* django settings.                                                        *)
(***************************************************************************)
NodeTypes == {"AGENT", "PROXY", "PAGENT"}

OsTypes == {"LINUX", "WINDOWS", "AIX"}

SETUP_PAGENT_PY == <<"setup_pagent.py">>

GSECTL_BAT == <<"gsectl.bat">>

SCRIPT_FILE_NAME_MAP ==
    [LINUX |-> <<"setup_agent.sh">>, WINDOWS |-> <<"setup_agent.bat">>, AIX |-> <<"setup_agent.ksh">>]

SUFFIX_MAP == [linux |-> <<"sh">>, windows |-> <<"bat">>, aix |-> <<"ksh">>]

\* str.lower() on the os tags
lower(os_type) ==
    CASE os_type = "LINUX" -> "linux"
      [] os_type = "WINDOWS" -> "windows"
      [] os_type = "AIX" -> "aix"
      [] OTHER -> os_type

BK_NODEMAN_NGINX_DOWNLOAD_PORT == <<"17980">>

BK_NODEMAN_NGINX_PROXY_PASS_PORT == <<"17981">>

DOWNLOAD_PATH == <<"/data/bkee/public/bknodeman/download">>

(***************************************************************************)
(* Callback URLs, character by character.                                  *)
(***************************************************************************)
URL_HTTP == <<"h","t","t","p",":","/","/","e",".","c","/","b","a","c","k","e","n","d">>

URL_HTTPS == <<"h","t","t","p","s",":","/","/","e",".","c","/","b","a","c","k","e","n","d">>

URL_OTHER == <<"h","t","t","p",":","/","/","e",".","c","/","o","t","h","e","r">>

URL_FTP == <<"f","t","p",":","/","/","e",".","c","/","b","a","c","k","e","n","d">>

URL_NOHOST == <<"h","t","t","p",":","/","/","/","b","a","c","k","e","n","d">>

\* (BKAPP_NODEMAN_CALLBACK_URL, BKAPP_NODEMAN_OUTER_CALLBACK_URL) as deployed
SettingsChoices ==
    { [BKAPP_NODEMAN_CALLBACK_URL |-> URL_HTTP, BKAPP_NODEMAN_OUTER_CALLBACK_URL |-> URL_HTTPS],
      [BKAPP_NODEMAN_CALLBACK_URL |-> URL_OTHER, BKAPP_NODEMAN_OUTER_CALLBACK_URL |-> URL_FTP] }

\* AccessPoint.outer_callback_url; <<>> is the empty default
OuterCallbackChoices == {<<>>, URL_HTTP, URL_OTHER, URL_FTP, URL_NOHOST}

(***************************************************************************)
(* Addresses, character by character.                                      *)
(***************************************************************************)
IP_IN1 == <<"1","0",".","0",".","0",".","1">>

IP_IN2 == <<"1","0",".","0",".","0",".","2">>

IP_OUT1 == <<"9",".","0",".","0",".","1">>

IP_OUT2 == <<"9",".","0",".","0",".","2">>

IP_CH1 == <<"1","0",".","7",".","0",".","1">>

IP_CH2 == <<"1","0",".","7",".","0",".","2">>

IP_JUMP == <<"1","0",".","7",".","0",".","9">>

(***************************************************************************)
(* Records of the record store (models.Host, models.AccessPoint,           *)
(* models.IdentityData, the install channel).                              *)
(***************************************************************************)
\* None where a models.Host is expected
NoHost == [bk_host_id |-> 0, inner_ip |-> <<>>, status |-> "NONE"]

PROXY1 == [bk_host_id |-> 901, inner_ip |-> IP_IN1, status |-> "RUNNING"]

PROXY1B == [bk_host_id |-> 902, inner_ip |-> IP_IN1, status |-> "RUNNING"]

PROXY2 == [bk_host_id |-> 903, inner_ip |-> IP_IN2, status |-> "RUNNING"]

PROXYDEAD == [bk_host_id |-> 904, inner_ip |-> IP_IN2, status |-> "TERMINATED"]

JUMPHOST == [bk_host_id |-> 950, inner_ip |-> IP_JUMP, status |-> "RUNNING"]

\* the proxies lists a caller supplies / the record store holds
ProxyLists ==
    { <<>>, <<PROXY1>>, <<PROXY1, PROXY1B, PROXY2>>, <<PROXY2, PROXYDEAD>>, <<PROXYDEAD>> }

\* host.proxies as the record store may answer for a cloud region with proxies
StoredProxyLists == { <<>>, <<PROXY2>>, <<PROXY1, PROXY1B, PROXY2>> }

\* the (jump_server, upstream_servers) pair of "no install channel"
NoChannel ==
    [jump_server |-> NoHost,
     upstream_servers |-> [btfileserver |-> <<>>, dataserver |-> <<>>, taskserver |-> <<>>,
                           agent_download_proxy |-> <<>>, channel_proxy_address |-> <<>>]]

\* the (jump_server, upstream_servers) pair of install channel 1; the optional
\* keys of upstream_servers are <<>> when absent and <<value>> when present
Channel1 ==
    [jump_server |-> JUMPHOST,
     upstream_servers |-> [btfileserver |-> <<IP_CH1>>, dataserver |-> <<IP_CH2>>,
                           taskserver |-> <<IP_CH1, IP_CH2, IP_CH1>>,
                           agent_download_proxy |-> <<>>,
                           channel_proxy_address |-> << <<"http://10.7.0.9:17981">> >>]]

PortConfig ==
    [io_port |-> <<"48668">>, file_svr_port |-> <<"58925">>, data_port |-> <<"58625">>,
     btsvr_thrift_port |-> <<"58930">>, bt_port |-> <<"10020">>, bt_port_start |-> <<"60020">>,
     bt_port_end |-> <<"60030">>, tracker_port |-> <<"10030">>]

AgentConfig ==
    [LINUX |-> [setup_path |-> <<"/usr/local/gse">>, temp_path |-> <<"/tmp">>],
     WINDOWS |-> [setup_path |-> <<"C:\\gse">>, temp_path |-> <<"C:\\tmp">>],
     AIX |-> [setup_path |-> <<"/usr/local/gse">>, temp_path |-> <<"/data/agent">>]]

AccessPoint(outer_callback_url) ==
    [btfileserver |-> << [inner_ip |-> IP_IN1, outer_ip |-> IP_OUT1] >>,
     dataserver |-> << [inner_ip |-> IP_IN2, outer_ip |-> IP_OUT2] >>,
     taskserver |-> << [inner_ip |-> IP_IN1, outer_ip |-> IP_OUT1],
                       [inner_ip |-> IP_IN2, outer_ip |-> IP_OUT2],
                       [inner_ip |-> IP_IN1, outer_ip |-> IP_OUT1] >>,
     package_inner_url |-> <<"http://10.0.0.8/download">>,
     package_outer_url |-> <<"http://9.0.0.8/download">>,
     outer_callback_url |-> outer_callback_url,
     port_config |-> PortConfig,
     agent_config |-> AgentConfig]

IdentityKey ==
    [auth_type |-> "KEY", key |-> <<"KEYDATA">>, password |-> <<"">>, account |-> <<"root">>, port |-> <<"22">>]

IdentityPassword ==
    [auth_type |-> "PASSWORD", key |-> <<"">>, password |-> <<"secret">>, account |-> <<"admin">>, port |-> <<"36000">>]

NodeTypeNo(t) == CASE t = "AGENT" -> 0 [] t = "PROXY" -> 1 [] OTHER -> 2

OsTypeNo(o) == CASE o = "LINUX" -> 0 [] o = "WINDOWS" -> 1 [] OTHER -> 2

\* Every combination of role, operating system, install-channel presence
\* and manual flag.  AGENT hosts live in the default cloud region 0.
Hosts ==
    { [bk_host_id |-> 1 + NodeTypeNo(t) * 12 + OsTypeNo(o) * 4 + c * 2 + (IF m THEN 1 ELSE 0),
       node_type |-> t, os_type |-> o, install_channel_id |-> c,
       bk_cloud_id |-> IF t = "AGENT" THEN 0 ELSE 1,
       is_manual |-> m,
       inner_ip |-> <<"10.1.1.", ToString(NodeTypeNo(t) * 12 + OsTypeNo(o) * 4 + c * 2)>>,
       login_ip |-> IF m THEN <<>> ELSE <<"10.2.2.2">>]
      : t \in NodeTypes, o \in OsTypes, c \in {0, 1}, m \in BOOLEAN }

\* host.proxies: the PROXY hosts of the host's cloud region
host_dot_proxies(host, store) == IF host.bk_cloud_id = 0 THEN <<>> ELSE store.proxies

\* host.install_channel: the channel of the host's install_channel_id
host_dot_install_channel(host) == IF host.install_channel_id # 0 THEN Channel1 ELSE NoChannel

\* host.identity
host_dot_identity(host) == IF host.is_manual THEN IdentityPassword ELSE IdentityKey

\* host.ap
host_dot_ap(host, store) == AccessPoint(store.outer_callback_url)

\* host.get_random_alive_proxy(proxies): the proxies random.choice may return;
\* the empty set when it raises AliveProxyNotExistsError
get_random_alive_proxy(proxies) == {p \in Range(proxies) : p.status = "RUNNING"}

\* apps.utils.basic.suffix_slash
suffix_slash(os, path) ==
    LET sep == IF os = "windows" THEN "\\" ELSE "/"
    IN IF path # <<>> /\ path[Len(path)] = sep THEN path ELSE path \o <<sep>>

\* aes_cipher.encrypt: an opaque deterministic function of the payload
encrypt(payload) == <<"enc(">> \o payload \o <<")">>

(***************************************************************************)
(* tools.py                                                                *)
(***************************************************************************)
\* x or y, for an optional argument: <<>> is None, <<v>> is the object v
or_else(opt, default) == IF opt = <<>> THEN default ELSE opt[1]

gen_nginx_download_url(nginx_ip) ==
    <<"http://">> \o nginx_ip \o <<":">> \o BK_NODEMAN_NGINX_DOWNLOAD_PORT \o <<"/">>

inner_ips(pool) == [i \in 1..Len(pool) |-> pool[i].inner_ip]

\* the inner addresses taken where the outer ones are meant
outer_ips_from_inner(pool) == [i \in 1..Len(pool) |-> pool[i].inner_ip]

outer_ips(pool) == [i \in 1..Len(pool) |-> pool[i].outer_ip]

\* the 7-tuple with the jump host left at its initial None
gse_servers_without_jump(jump_server, bt_file_servers, data_servers, task_servers, package_url, callback_url) ==
    <<NoHost, bt_file_servers, data_servers, data_servers, task_servers, package_url, callback_url>>

\* the 7-tuple fetch_gse_servers returns
gse_servers(jump_server, bt_file_servers, data_servers, task_servers, package_url, callback_url) ==
    <<jump_server, bt_file_servers, data_servers, data_servers, task_servers, package_url, callback_url>>

\* the callback URL of a host outside the default area (lines 91, 106, 116)
outer_callback(ap, default_callback_url) ==
    IF ap.outer_callback_url # <<>> THEN ap.outer_callback_url ELSE default_callback_url

\* Each branch of fetch_gse_servers gives the set of its outcomes:
\* [raised |-> "", value |-> 7-tuple] for each value it may return,
\* [raised |-> exception, value |-> <<>>] when it raises.

\* lines 79-92: the install channel gives the jump host and the servers
fetch_by_channel(host, ap, install_channel) ==
    IF install_channel.jump_server = NoHost
    THEN {[raised |-> "AttributeError", value |-> <<>>]}
    ELSE LET jump_server == install_channel.jump_server
             upstream_servers == install_channel.upstream_servers
             default_callback_url ==
                 IF host.node_type = "AGENT"
                 THEN settings.BKAPP_NODEMAN_CALLBACK_URL
                 ELSE settings.BKAPP_NODEMAN_OUTER_CALLBACK_URL
         IN {[raised |-> "",
              value |-> gse_servers(
                  jump_server,
                  Join(<<",">>, upstream_servers.btfileserver),
                  Join(<<",">>, upstream_servers.dataserver),
                  Join(<<",">>, upstream_servers.taskserver),
                  gen_nginx_download_url(jump_server.inner_ip),
                  outer_callback(ap, default_callback_url))]}

\* lines 94-99
fetch_for_agent(ap) ==
    {[raised |-> "",
      value |-> gse_servers(
          NoHost,
          Join(<<",">>, inner_ips(ap.btfileserver)),
          Join(<<",">>, inner_ips(ap.dataserver)),
          Join(<<",">>, inner_ips(ap.taskserver)),
          ap.package_inner_url,
          settings.BKAPP_NODEMAN_CALLBACK_URL)]}

\* lines 100-106
fetch_for_proxy(ap) ==
    {[raised |-> "",
      value |-> gse_servers(
          NoHost,
          Join(<<",">>, outer_ips(ap.btfileserver)),
          Join(<<",">>, outer_ips(ap.dataserver)),
          Join(<<",">>, outer_ips(ap.taskserver)),
          ap.package_outer_url,
          outer_callback(ap, settings.BKAPP_NODEMAN_OUTER_CALLBACK_URL))]}

\* lines 107-116: one outcome for each proxy random.choice may return
fetch_for_pagent(ap, proxies) ==
    LET proxy_ips == list_set(inner_ips(proxies), hashseed)
        alive == get_random_alive_proxy(proxies)
    IN IF alive = {}
       THEN {[raised |-> "AliveProxyNotExistsError", value |-> <<>>]}
       ELSE {[raised |-> "",
              value |-> gse_servers(
                  jump_server,
                  Join(<<",">>, proxy_ips),
                  Join(<<",">>, proxy_ips),
                  Join(<<",">>, proxy_ips),
                  ap.package_outer_url,
                  outer_callback(ap, settings.BKAPP_NODEMAN_OUTER_CALLBACK_URL))]
             : jump_server \in alive}

\* fetch_gse_servers deciding by role before looking at the install channel
fetch_gse_servers_role_first(host, ap, proxies, install_channel) ==
    IF host.node_type = "PAGENT" THEN fetch_for_pagent(ap, proxies)
    ELSE IF host.install_channel_id # 0 THEN fetch_by_channel(host, ap, install_channel)
    ELSE IF host.node_type = "AGENT" THEN fetch_for_agent(ap)
    ELSE fetch_for_proxy(ap)

\* The set of outcomes of fetch_gse_servers
fetch_gse_servers(host, ap, proxies, install_channel) ==
    IF host.install_channel_id # 0 THEN fetch_by_channel(host, ap, install_channel)
    ELSE IF host.node_type = "AGENT" THEN fetch_for_agent(ap)
    ELSE IF host.node_type = "PROXY" THEN fetch_for_proxy(ap)
    ELSE fetch_for_pagent(ap, proxies)

\* choose_script_file without the install-channel condition of line 127
choose_script_file_by_role(host) ==
    IF host.node_type = "PROXY" THEN <<"setup_proxy.sh">>
    ELSE IF host.node_type = "PAGENT" THEN SETUP_PAGENT_PY
    ELSE SCRIPT_FILE_NAME_MAP[host.os_type]

choose_script_file(host) ==
    IF host.node_type = "PROXY" THEN <<"setup_proxy.sh">>
    ELSE IF host.install_channel_id # 0 \/ host.node_type = "PAGENT" THEN SETUP_PAGENT_PY
    ELSE SCRIPT_FILE_NAME_MAP[host.os_type]

\* run_cmd = <<>> stands for None (and for the empty string, equally false)
format_run_cmd_by_os_type(os_type, run_cmd) ==
    LET os == lower(os_type)
        suffix == SUFFIX_MAP[os]
        shell == IF suffix # SUFFIX_MAP["aix"] THEN <<"bash">> ELSE suffix
    IN IF os = "windows" /\ run_cmd # <<>> THEN run_cmd
       ELSE IF run_cmd # <<>> THEN <<"nohup ">> \o shell \o <<" ">> \o run_cmd \o <<" &">>
       ELSE shell

\* the pattern without its scheme: "^-r .+/backend$"
re_match_any_scheme(command) ==
    /\ StartsWith(command, <<"-","r"," ">>)
    /\ Len(command) >= 3 + 1 + 8
    /\ EndsWith(command, <<"/","b","a","c","k","e","n","d">>)

\* re.match("^-r https?://.+/backend$", command): "." is any character but a
\* newline, "$" is the end of the string or the place before a final newline
re_match_callback(command) ==
    \E prefix \in { <<"-","r"," ","h","t","t","p",":","/","/">>,
                    <<"-","r"," ","h","t","t","p","s",":","/","/">> } :
    \E e \in {Len(command)} \cup
             (IF command # <<>> /\ command[Len(command)] = "\n" THEN {Len(command) - 1} ELSE {}) :
        /\ StartsWith(command, prefix)
        /\ e - 8 >= Len(prefix) + 1
        /\ SubSeq(command, e - 7, e) = <<"/","b","a","c","k","e","n","d">>
        /\ \A i \in (Len(prefix) + 1)..(e - 8) : command[i] # "\n"

\* TRUE when check_run_commands returns, FALSE when it raises GenCommandsError
check_run_commands(run_commands) ==
    \A i \in DOMAIN run_commands :
        StartsWith(run_commands[i], <<"-","r">>) => re_match_callback(run_commands[i])

\* a run parameter f"-{flag} {value}"
param(flag, value) == <<"-", flag, " ">> \o value

quoted(q, value) == <<q>> \o value \o <<q>>

\* Path(dest_dir) != Path("/tmp"): pathlib drops trailing slashes
not_tmp(dest_dir) ==
    LET stripped == IF dest_dir # <<>> /\ dest_dir[Len(dest_dir)] = "/"
                    THEN SubSeq(dest_dir, 1, Len(dest_dir) - 1) ELSE dest_dir
    IN stripped # <<"/tmp">>

\* The parameters of the run command up to the callback check (lines 191-207)
base_run_cmd_params(host, pipeline_id, now, ap, servers) ==
    LET bt_file_servers == servers[2]
        data_servers == servers[4]
        task_servers == servers[5]
        package_url == servers[6]
        callback_url == servers[7]
        token == encrypt(host.inner_ip \o <<"|", ToString(host.bk_cloud_id), "|">> \o pipeline_id
                         \o <<"|", ToString(now)>>)
        port_config == ap.port_config
    IN << param("s", pipeline_id),
          param("r", callback_url),
          param("l", package_url),
          param("c", token),
          param("O", port_config.io_port),
          param("E", port_config.file_svr_port),
          param("A", port_config.data_port),
          param("V", port_config.btsvr_thrift_port),
          param("B", port_config.bt_port),
          param("S", port_config.bt_port_start),
          param("Z", port_config.bt_port_end),
          param("K", port_config.tracker_port),
          param("e", quoted("\"", bt_file_servers)),
          param("a", quoted("\"", data_servers)),
          param("k", quoted("\"", task_servers)) >>

\* the character ` of the shell, which a TLA+ string cannot hold
BACKQUOTE == "<backquote>"

\* The relay branch (lines 215-271): [run_cmd, dest_dir, download_cmd, win_commands]
relay_branch(host, is_uninstall, identity_data, ap, servers, script_file_name, params) ==
    LET jump_server == servers[1]
        package_url == servers[6]
        agent_config == ap.agent_config[host.os_type]
        install_path == agent_config.setup_path
        dest_dir == suffix_slash("linux", ap.agent_config["LINUX"].temp_path)
        params1 == params \o << <<"-L ">> \o DOWNLOAD_PATH >>
        params2 == IF host.is_manual
                   THEN << dest_dir \o script_file_name \o <<" ">> >> \o params1
                   ELSE params1
        host_tmp_path == suffix_slash(lower(host.os_type), agent_config.temp_path)
        host_identity == IF identity_data.auth_type = "KEY"
                         THEN identity_data.key ELSE identity_data.password
        host_shell == format_run_cmd_by_os_type(host.os_type, <<>>)
        params3 == params2 \o
            << <<"-HLIP ">> \o (IF host.login_ip # <<>> THEN host.login_ip ELSE host.inner_ip),
               <<"-HIIP ">> \o host.inner_ip,
               <<"-HA ">> \o identity_data.account,
               <<"-HP ">> \o identity_data.port,
               <<"-HI ">> \o quoted("'", host_identity),
               <<"-HC ", ToString(host.bk_cloud_id)>>,
               <<"-HNT ", host.node_type>>,
               <<"-HOT ", lower(host.os_type)>>,
               <<"-HDD ">> \o quoted("'", host_tmp_path),
               <<"-HPP ">> \o quoted("'", BK_NODEMAN_NGINX_PROXY_PASS_PORT),
               <<"-HSN ">> \o quoted("'", SCRIPT_FILE_NAME_MAP[host.os_type]),
               <<"-HS ">> \o quoted("'", host_shell) >>
        params4 == params3 \o
            << <<"-p ">> \o quoted("'", install_path),
               <<"-I ">> \o jump_server.inner_ip,
               <<"-o ">> \o gen_nginx_download_url(jump_server.inner_ip),
               IF is_uninstall THEN <<"-R">> ELSE <<>> >>
        \* line 254 reads host.install_channel again, not the argument
        upstream_servers == host_dot_install_channel(host).upstream_servers
        agent_download_proxy ==
            IF upstream_servers.agent_download_proxy = <<>> THEN <<"True">>
            ELSE upstream_servers.agent_download_proxy[1]
        adp == IF host.install_channel_id # 0 /\ agent_download_proxy \notin {<<"False">>, <<>>}
               THEN << <<"-ADP ">> \o quoted("'", agent_download_proxy) >> ELSE <<>>
        cpa == IF /\ host.install_channel_id # 0
                  /\ upstream_servers.channel_proxy_address # <<>>
                  /\ upstream_servers.channel_proxy_address[1] # <<>>
               THEN << <<"-CPA ">> \o quoted("'", upstream_servers.channel_proxy_address[1]) >>
               ELSE <<>>
        target == dest_dir \o script_file_name
    IN [run_cmd |-> Join(<<" ">>, params4 \o adp \o cpa),
        dest_dir |-> dest_dir,
        win_commands |-> <<>>,
        download_cmd |->
            <<"if [ ! -e ">> \o target \o <<" ] || [ ", BACKQUOTE, "curl ">> \o package_url \o <<"/">>
            \o script_file_name \o <<" -s | md5sum | awk '{print $1}'", BACKQUOTE, " != ", BACKQUOTE, "md5sum ">>
            \o target \o <<" | awk '{print $1}'", BACKQUOTE, " ]; then curl ">> \o package_url \o <<"/">>
            \o script_file_name \o <<" -o ">> \o target \o <<" --connect-timeout 5 -sSf && chmod +x ">>
            \o target
            \o <<"; fi">>]

\* the three Windows commands with download and remove exchanged
win_command_list_download_first(win_remove_cmd, win_download_cmd, run_cmd) ==
    <<win_download_cmd, win_remove_cmd, run_cmd>>

\* the three Windows commands of line 296
win_command_list(win_remove_cmd, win_download_cmd, run_cmd) ==
    <<win_remove_cmd, win_download_cmd, run_cmd>>

\* The direct branch (lines 273-297): [run_cmd, dest_dir, download_cmd, win_commands]
direct_branch(host, is_uninstall, ap, servers, script_file_name, params) ==
    LET package_url == servers[6]
        agent_config == ap.agent_config[host.os_type]
        install_path == agent_config.setup_path
        dest_dir == suffix_slash(lower(host.os_type), agent_config.temp_path)
        params1 == params \o
            << <<"-i ", ToString(host.bk_cloud_id)>>,
               <<"-I ">> \o host.inner_ip,
               <<"-N SERVER">>,
               <<"-p ">> \o install_path,
               <<"-T ">> \o dest_dir,
               IF is_uninstall THEN <<"-R">> ELSE <<>> >>
        target == dest_dir \o script_file_name
        run_cmd == format_run_cmd_by_os_type(host.os_type, target \o <<" ">> \o Join(<<" ">>, params1))
        win_remove_cmd == <<"del /q /s /f ">> \o target \o <<" ">> \o dest_dir \o GSECTL_BAT
        win_download_cmd == dest_dir \o <<"curl.exe ">> \o ap.package_inner_url \o <<"/">>
                            \o script_file_name \o <<" -o ">> \o target \o <<" -sSf">>
    IN [run_cmd |-> run_cmd,
        dest_dir |-> dest_dir,
        win_commands |-> IF host.os_type = "WINDOWS"
                         THEN win_command_list(win_remove_cmd, win_download_cmd, run_cmd)
                         ELSE <<>>,
        download_cmd |-> <<"curl ">> \o package_url \o <<"/">> \o script_file_name \o <<" -o ">>
                         \o target \o <<" --connect-timeout 5 -sSf">>]

\* upstream_nodes = list(set(task_servers)) of lines 185 and 306
upstream_nodes_of(task_servers) == list_set(chars_of(task_servers), hashseed)

\* evaluations of host.install_channel inside one gen_commands call: line 173
\* when no channel is passed in, line 254 in the relay branch of a channel host
channel_lookups_173(install_channel_arg) == IF install_channel_arg = <<>> THEN 1 ELSE 0

channel_lookups_254(host, script_file_name) ==
    IF script_file_name = SETUP_PAGENT_PY /\ host.install_channel_id # 0 THEN 1 ELSE 0

\* whether check_run_commands (line 209) lets the build go on
callback_check(run_cmd_params) == check_run_commands(run_cmd_params)

\* gen_commands from line 185 on, for one value returned by fetch_gse_servers
build_plan(a, ap, identity_data, proxies, servers) ==
    LET host == a.host
        run_cmd_params == base_run_cmd_params(host, a.pipeline_id, a.now, ap, servers)
        script_file_name == choose_script_file(host)
        b == IF script_file_name = SETUP_PAGENT_PY
             THEN relay_branch(host, a.is_uninstall, identity_data, ap, servers,
                               script_file_name, run_cmd_params)
             ELSE direct_branch(host, a.is_uninstall, ap, servers, script_file_name, run_cmd_params)
        chmod_cmd == <<"chmod +x ">> \o b.dest_dir \o script_file_name
        pre_commands == (IF not_tmp(b.dest_dir) THEN << <<"mkdir -p ">> \o b.dest_dir >> ELSE <<>>)
                        \o <<b.download_cmd, chmod_cmd>>
    IN IF ~callback_check(run_cmd_params)
       THEN [raised |-> "GenCommandsError", plan |-> <<>>, servers |-> servers,
             channel_lookups |-> channel_lookups_173(a.install_channel)]
       ELSE [raised |-> "",
             plan |-> << [script_file_name |-> script_file_name,
                          dest_dir |-> b.dest_dir,
                          win_commands |-> b.win_commands,
                          upstream_nodes |-> upstream_nodes_of(servers[5]),
                          jump_server |-> servers[1],
                          pre_commands |-> pre_commands,
                          run_cmd |-> b.run_cmd,
                          host |-> host,
                          ap |-> ap,
                          identity_data |-> identity_data,
                          proxies |-> proxies] >>,
             servers |-> servers,
             channel_lookups |-> channel_lookups_173(a.install_channel)
                                 + channel_lookups_254(host, script_file_name)]

\* the proxies gen_commands works with (line 174): an empty list is false too
effective_proxies(a) ==
    IF a.proxies = <<>> \/ a.proxies[1] = <<>> THEN host_dot_proxies(a.host, db) ELSE a.proxies[1]

\* The set of outcomes of gen_commands(host, pipeline_id, is_uninstall,
\* identity_data, host_ap, proxies, install_channel) at time a.now.  An outcome
\* is [raised, plan, servers, channel_lookups]: the exception raised ("" for
\* none), <<the InstallationTools returned>>, the tuple fetch_gse_servers
\* returned, and how often host.install_channel was evaluated.
gen_commands(a) ==
    LET ap == or_else(a.host_ap, host_dot_ap(a.host, db))
        identity_data == or_else(a.identity_data, host_dot_identity(a.host))
        install_channel == or_else(a.install_channel, host_dot_install_channel(a.host))
        proxies == effective_proxies(a)
    IN { IF f.raised # ""
         THEN [raised |-> f.raised, plan |-> <<>>, servers |-> <<>>,
               channel_lookups |-> channel_lookups_173(a.install_channel)]
         ELSE build_plan(a, ap, identity_data, proxies, f.value)
         : f \in fetch_gse_servers(a.host, ap, proxies, install_channel) }

(***************************************************************************)
(* The callers.                                                            *)
(***************************************************************************)
PIPELINE_ID == <<"p1">>

\* time.time() at the call
Timestamps == {1700000000}

\* hosts a batch is made of
BatchHosts ==
    {h \in Hosts : /\ ~h.is_manual
                   /\ \/ h.os_type = "LINUX"
                      \/ h.os_type = "WINDOWS" /\ h.node_type = "AGENT" /\ h.install_channel_id = 0}

RECURSIVE SeqsUpTo(_, _)
\* the sequences over S of length 1..n
SeqsUpTo(S, n) ==
    IF n = 0 THEN {}
    ELSE LET shorter == SeqsUpTo(S, n - 1)
         IN {<<x>> : x \in S} \cup {Append(q, x) : q \in shorter, x \in S}

ChannelIds == {h.install_channel_id : h \in Hosts}

Init ==
    /\ settings \in SettingsChoices
    /\ hashseed \in {0, 1}
    /\ db \in [proxies : StoredProxyLists, outer_callback_url : OuterCallbackChoices]
    /\ pc = "idle"
    /\ args = <<>>
    /\ res1 = <<>>
    /\ res2 = <<>>
    /\ hosts = <<>>
    /\ idx = 0
    /\ host_id__installation_tool_map = <<>>
    /\ install_channel_id_obj_map = <<>>
    /\ cloud_id_proxies_map = <<>>
    /\ attempted = {}
    /\ lookups = [c \in ChannelIds |-> 0]
    /\ batch_uninstall = FALSE

batch_vars == <<hosts, idx, host_id__installation_tool_map, install_channel_id_obj_map,
                cloud_id_proxies_map, attempted, lookups, batch_uninstall>>

env_vars == <<settings, hashseed, db>>

\* A caller calls gen_commands: either with the host alone (the optional
\* objects are looked up from the host) or, as a batch does, with the access
\* point, identity and install channel looked up beforehand; the proxies are
\* left out or any list.
Call ==
    /\ pc = "idle"
    /\ \E host \in Hosts, uninstall \in BOOLEAN, prefetched \in BOOLEAN,
          proxies \in {<<>>} \cup {<<l>> : l \in ProxyLists}, now \in Timestamps :
          LET a == [host |-> host,
                    pipeline_id |-> PIPELINE_ID,
                    is_uninstall |-> uninstall,
                    identity_data |-> IF prefetched THEN <<host_dot_identity(host)>> ELSE <<>>,
                    host_ap |-> IF prefetched THEN <<host_dot_ap(host, db)>> ELSE <<>>,
                    proxies |-> proxies,
                    install_channel |-> IF prefetched THEN <<host_dot_install_channel(host)>> ELSE <<>>,
                    now |-> now]
          IN /\ args' = <<a>>
             /\ \E r \in gen_commands(a) : res1' = <<r>>
    /\ pc' = "called"
    /\ UNCHANGED <<env_vars, res2, batch_vars>>

\* The caller repeats the call with identical arguments and timestamp.
CallAgain ==
    /\ pc = "called"
    /\ \E r \in gen_commands(args[1]) : res2' = <<r>>
    /\ pc' = "recalled"
    /\ UNCHANGED <<env_vars, args, res1, batch_vars>>

Next == Call \/ CallAgain

Spec == Init /\ [][Next]_vars

\* m[k] = v added to the dict m
dict_set(m, k, v) == [x \in DOMAIN m \cup {k} |-> IF x = k THEN v ELSE m[x]]

\* batch_gen_commands, lines 332-339
BatchStart ==
    /\ pc = "idle"
    /\ \E hs \in SeqsUpTo(BatchHosts, MaxHosts), uninstall \in BOOLEAN :
          /\ hosts' = hs
          /\ batch_uninstall' = uninstall
    /\ idx' = 1
    /\ host_id__installation_tool_map' = <<>>
    /\ install_channel_id_obj_map' = <<>>
    /\ cloud_id_proxies_map' = <<>>
    /\ pc' = "batch"
    /\ UNCHANGED <<env_vars, args, res1, res2, attempted, lookups>>

\* the install channel cache after lines 351-352 for host
channel_cache_after(cache, host) ==
    IF host.install_channel_id \notin DOMAIN cache
    THEN dict_set(cache, host.install_channel_id, host_dot_install_channel(host))
    ELSE cache

\* evaluations of host.install_channel by lines 351-352 for host
channel_lookups_352(cache, host) == IF host.install_channel_id \notin DOMAIN cache THEN 1 ELSE 0

\* One iteration of the loop of batch_gen_commands, lines 341-357.  An
\* exception of gen_commands is not caught: it ends the loop and the call.
BatchStep ==
    /\ pc = "batch"
    /\ idx <= Len(hosts)
    /\ LET host == hosts[idx]
           ap == host_dot_ap(host, db)
           \* host_id_identity_map.get(host.bk_host_id) or host.identity
           identity_data == host_dot_identity(host)
           proxies_map == IF host.bk_cloud_id \notin DOMAIN cloud_id_proxies_map
                          THEN dict_set(cloud_id_proxies_map, host.bk_cloud_id, host_dot_proxies(host, db))
                          ELSE cloud_id_proxies_map
           channel_map == channel_cache_after(install_channel_id_obj_map, host)
           a == [host |-> host,
                 pipeline_id |-> PIPELINE_ID,
                 is_uninstall |-> batch_uninstall,
                 identity_data |-> <<identity_data>>,
                 host_ap |-> <<ap>>,
                 proxies |-> <<proxies_map[host.bk_cloud_id]>>,
                 install_channel |-> <<channel_map[host.install_channel_id]>>,
                 now |-> CHOOSE t \in Timestamps : TRUE]
       IN /\ cloud_id_proxies_map' = proxies_map
          /\ install_channel_id_obj_map' = channel_map
          /\ attempted' = attempted \cup {host.bk_host_id}
          /\ \E r \in gen_commands(a) :
                /\ lookups' = [lookups EXCEPT ![host.install_channel_id] =
                                  @ + channel_lookups_352(install_channel_id_obj_map, host)
                                    + r.channel_lookups]
                /\ IF r.raised # ""
                   THEN /\ pc' = "raised"
                        /\ UNCHANGED <<idx, host_id__installation_tool_map>>
                   ELSE /\ pc' = pc
                        /\ idx' = idx + 1
                        /\ host_id__installation_tool_map' =
                              dict_set(host_id__installation_tool_map, host.bk_host_id, r.plan[1])
    /\ UNCHANGED <<env_vars, args, res1, res2, hosts, batch_uninstall>>

\* line 359
BatchReturn ==
    /\ pc = "batch"
    /\ idx > Len(hosts)
    /\ pc' = "returned"
    /\ UNCHANGED <<env_vars, args, res1, res2, batch_vars>>

\* what the caller of batch_gen_commands receives: the map of line 359, or
\* nothing when an exception ended the call
result_of_batch == IF pc = "returned" THEN host_id__installation_tool_map ELSE <<>>

BatchNext == BatchStart \/ BatchStep \/ BatchReturn

BatchSpec == Init /\ [][BatchNext]_vars

(***************************************************************************)
(* Properties.                                                             *)
(***************************************************************************)
\* the outcomes of the gen_commands calls made so far, with args[1] as input
Outcomes == Range(res1 \o res2)

\* the plans returned so far
Plans == {r.plan[1] : r \in {o \in Outcomes : o.plan # <<>>}}

HasChannel(host) == host.install_channel_id # 0

\* C1: in batch_gen_commands a host whose plan generation fails does not keep
\* the other hosts of the batch from being attempted, and the hosts whose
\* generation succeeded get their plan, wherever the failing host stands.
C1_FailureConfinedToHost ==
    pc \in {"raised", "returned"} =>
        \A i \in DOMAIN hosts :
            /\ hosts[i].bk_host_id \in attempted
            /\ hosts[i].bk_host_id \in DOMAIN host_id__installation_tool_map
                  => hosts[i].bk_host_id \in DOMAIN result_of_batch

\* C10: during one batch_gen_commands call host.install_channel is evaluated
\* at most once for each install_channel_id value, the no-channel value
\* included.
C10_ChannelLookedUpOncePerId == \A c \in ChannelIds : lookups[c] <= 1

\* the addresses of the task servers resolved for the host of plan p
TaskAddresses(p) ==
    IF HasChannel(p.host) THEN Range(host_dot_install_channel(p.host).upstream_servers.taskserver)
    ELSE IF p.host.node_type = "AGENT" THEN {p.ap.taskserver[i].inner_ip : i \in DOMAIN p.ap.taskserver}
    ELSE IF p.host.node_type = "PROXY" THEN {p.ap.taskserver[i].outer_ip : i \in DOMAIN p.ap.taskserver}
    ELSE {p.proxies[i].inner_ip : i \in DOMAIN p.proxies}

\* C2: the upstream_nodes of every plan are the addresses of the task servers
\* resolved for the host, each whole address exactly once.
C2_UpstreamNodesAreAddresses ==
    \A p \in Plans :
        /\ Range(p.upstream_nodes) = TaskAddresses(p)
        /\ Len(p.upstream_nodes) = Cardinality(TaskAddresses(p))

\* C3: the jump host fetch_gse_servers resolves, and the plan stores, is
\* present exactly when the host has an install channel or is a PAGENT.
C3_JumpServerIffChannelOrPagent ==
    \A o \in Outcomes :
        LET host == args[1].host
            needed == HasChannel(host) \/ host.node_type = "PAGENT"
        IN /\ o.servers # <<>> => (o.servers[1] # NoHost <=> needed)
           /\ o.plan # <<>> => (o.plan[1].jump_server # NoHost <=> needed)
           /\ o.plan # <<>> => o.plan[1].jump_server = o.servers[1]

\* C3 at work: an AGENT host with an install channel, planned twice, with the
\* channel's jump host
C3_Witness ==
    /\ pc = "recalled"
    /\ args[1].host.node_type = "AGENT"
    /\ HasChannel(args[1].host)
    /\ res1[1].plan # <<>>
    /\ res1[1].plan[1].jump_server = JUMPHOST

\* ",".join of the outer addresses of a pool
OuterJoined(pool) == Join(<<",">>, [i \in 1..Len(pool) |-> pool[i].outer_ip])

ServersAreOuter(o, ap) ==
    /\ o.servers[2] = OuterJoined(ap.btfileserver)
    /\ o.servers[4] = OuterJoined(ap.dataserver)
    /\ o.servers[5] = OuterJoined(ap.taskserver)

\* C4 as claimed: for every PROXY host, with or without an install channel,
\* the file, data and task server strings are the outer addresses of the
\* access point's pools.
C4_ProxyServersAreOuter ==
    \A o \in Outcomes :
        args[1].host.node_type = "PROXY" /\ o.servers # <<>>
            => ServersAreOuter(o, host_dot_ap(args[1].host, db))

\* C4 as amended: for every PROXY host without an install channel the file,
\* data and task server strings are the outer addresses of the access point's
\* pools; with an install channel they are the channel's upstream servers.
C4_ProxyWithoutChannelServersAreOuter ==
    \A o \in Outcomes :
        LET host == args[1].host
            upstream_servers == host_dot_install_channel(host).upstream_servers
        IN host.node_type = "PROXY" /\ o.servers # <<>> =>
              IF HasChannel(host)
              THEN /\ o.servers[2] = Join(<<",">>, upstream_servers.btfileserver)
                   /\ o.servers[4] = Join(<<",">>, upstream_servers.dataserver)
                   /\ o.servers[5] = Join(<<",">>, upstream_servers.taskserver)
              ELSE ServersAreOuter(o, host_dot_ap(host, db))

\* C4 at work: a PROXY host without install channel resolved to the outer
\* addresses of the task server pool
C4_Witness ==
    /\ pc = "called"
    /\ args[1].host.node_type = "PROXY"
    /\ ~HasChannel(args[1].host)
    /\ res1[1].servers # <<>>
    /\ res1[1].servers[5] = IP_OUT1 \o <<",">> \o IP_OUT2 \o <<",">> \o IP_OUT1

\* C5 as claimed: every PAGENT host and every host with an install channel,
\* of any role, gets the relay installer script.
C5_RelayScriptForPagentOrChannel ==
    \A p \in Plans :
        p.host.node_type = "PAGENT" \/ HasChannel(p.host)
            => p.script_file_name = <<"setup_pagent.py">>

\* C5 as amended: every PAGENT host and every AGENT host with an install
\* channel gets the relay installer script; a PROXY host gets the proxy
\* installer script, with an install channel too.
C5_RelayScriptUnlessProxy ==
    \A p \in Plans :
        /\ p.host.node_type # "PROXY" /\ (p.host.node_type = "PAGENT" \/ HasChannel(p.host))
              => p.script_file_name = <<"setup_pagent.py">>
        /\ p.host.node_type = "PROXY" => p.script_file_name = <<"setup_proxy.sh">>

\* C5 at work: an AGENT host with an install channel gets the relay script
C5_Witness ==
    /\ pc = "called"
    /\ args[1].host.node_type = "AGENT"
    /\ HasChannel(args[1].host)
    /\ res1[1].plan # <<>>
    /\ res1[1].plan[1].script_file_name = <<"setup_pagent.py">>

\* a URL of the pattern https?://.+/backend
HttpBackendUrl(u) ==
    \E scheme \in { <<"h","t","t","p",":","/","/">>, <<"h","t","t","p","s",":","/","/">> } :
        /\ StartsWith(u, scheme)
        /\ EndsWith(u, <<"/","b","a","c","k","e","n","d">>)
        /\ Len(u) > Len(scheme) + 8

\* the hosts that take the relay branch of gen_commands
TakesRelayBranch(host) ==
    host.node_type = "PAGENT" \/ (host.node_type = "AGENT" /\ HasChannel(host))

\* C6: gen_commands returns a plan only if the resolved callback URL is an
\* http(s) URL ending in /backend; otherwise it raises GenCommandsError and
\* returns no plan, in the relay and in the direct branch alike;
\* http://e.c/backend passes, http://e.c/other and ftp://e.c/backend fail.
C6_PlanOnlyWithValidCallback ==
    \A o \in Outcomes :
        /\ o.plan # <<>> => HttpBackendUrl(o.servers[7])
        /\ o.servers # <<>> /\ ~HttpBackendUrl(o.servers[7])
              => o.raised = "GenCommandsError" /\ o.plan = <<>>
        /\ o.servers # <<>> /\ o.servers[7] \in {URL_HTTP, URL_HTTPS} => o.plan # <<>>
        /\ o.servers # <<>> /\ o.servers[7] \in {URL_OTHER, URL_FTP}
              => o.raised = "GenCommandsError"

\* C6 at work: a relay-branch host whose callback URL has the wrong path
C6_Witness ==
    /\ pc = "called"
    /\ TakesRelayBranch(args[1].host)
    /\ res1[1].servers # <<>>
    /\ res1[1].servers[7] = URL_OTHER
    /\ res1[1].raised = "GenCommandsError"
    /\ res1[1].plan = <<>>

\* the live proxies among those plan p was built with
LiveProxies(p) == {q \in Range(p.proxies) : q.status = "RUNNING"}

\* the jump host of plan p was drawn at random among several
JumpDrawnAmongSeveral(p) ==
    p.host.node_type = "PAGENT" /\ ~HasChannel(p.host) /\ Cardinality(LiveProxies(p)) > 1

\* plan p without its jump host and without the run command that names it
WithoutJump(p) == [p EXCEPT !.jump_server = NoHost, !.run_cmd = <<>>]

OrderingsOf(S) == {q \in [1..Cardinality(S) -> S] : Range(q) = S}

\* C8: for a PAGENT host without install channel the jump host is one of the
\* proxies the caller supplied, the three server strings are the same string
\* of the distinct inner addresses of the supplied proxies, and with an empty
\* supplied list the resolution fails.
C8_JumpServerFromSuppliedProxies ==
    \A o \in Outcomes :
        LET a == args[1]
            supplied == a.proxies[1]
            ips == {supplied[i].inner_ip : i \in DOMAIN supplied}
        IN a.host.node_type = "PAGENT" /\ ~HasChannel(a.host) /\ a.proxies # <<>> =>
              /\ o.servers # <<>> =>
                    /\ o.servers[1] \in Range(supplied)
                    /\ o.servers[2] = o.servers[4] /\ o.servers[4] = o.servers[5]
                    /\ o.servers[5] \in {Join(<<",">>, q) : q \in OrderingsOf(ips)}
              /\ supplied = <<>> => o.raised = "AliveProxyNotExistsError"

\* the hosts that take the direct branch of gen_commands
TakesDirectBranch(host) == ~TakesRelayBranch(host)

\* C9: win_commands is empty or the three commands remove, download, run,
\* the third being the plan's run_cmd; it is the three commands for a Windows
\* host in the direct branch and empty for any other host.
C9_WinCommandsRemoveDownloadRun ==
    \A p \in Plans :
        LET w == p.win_commands
        IN /\ w # <<>> =>
                 /\ Len(w) = 3
                 /\ StartsWith(w[1], <<"del /q /s /f ">>)
                 /\ \E i \in DOMAIN w[2] : w[2][i] = "curl.exe "
                 /\ \A i \in DOMAIN w[1] : w[1][i] # "curl.exe "
                 /\ w[3] = p.run_cmd
           /\ p.host.os_type = "WINDOWS" /\ TakesDirectBranch(p.host) => Len(w) = 3
           /\ p.host.os_type # "WINDOWS" \/ TakesRelayBranch(p.host) => w = <<>>

\* C9 at work: a Windows PROXY host, direct branch, with its three commands
C9_Witness ==
    /\ pc = "called"
    /\ args[1].host.os_type = "WINDOWS"
    /\ args[1].host.node_type = "PROXY"
    /\ res1[1].plan # <<>>
    /\ Len(res1[1].plan[1].win_commands) = 3
    /\ res1[1].plan[1].win_commands[3] = res1[1].plan[1].run_cmd

====
